---- MODULE Spec2Model ----
(***************************************************************************)
(* Model of the Telegram / Binance-futures bot of b_future.py, its         *)
(* credential table (sql_config.py) and the subscriber entry point of      *)
(* subscribe_user_data.py.                                                 *)
(*                                                                         *)
(* A bot process handles one update at a time (the dispatcher thread runs  *)
(* the handlers synchronously).  The database is shared: every statement   *)
(* (one select, one insert) is atomic, and between the select and the      *)
(* insert of bind_b_api another bot process may run its own statements.    *)
(* bind_b_api is therefore two steps, TextMessage (up to the insert        *)
(* statement) and TextInsert (insert_data and what follows it); all other  *)
(* handlers issue at most one statement and are one step.                  *)
(*                                                                         *)
(* Strings are abstracted to tagged values: <<"key", i>>, <<"secret", i>>, *)
(* <<"label", i>>, <<"token", bot>>.  A text message is its length, the    *)
(* number of blanks in it, and the list of its newline-separated fields    *)
(* once blanks are removed.  update.message.reply_text is taken to deliver *)
(* (a reply is recorded in `last`); a failing cursor.execute is an input   *)
(* of the step (ok = FALSE), as sql_config.py catches it.                  *)
(***************************************************************************)
EXTENDS Integers, Sequences, FiniteSets, Bags, TLC

\* ------------------------------------------------------------------ bounds
NumKeys == 2
MaxOpen == 2
MaxEvents == 2
MaxTrades == 2

\* ------------------------------------------------------- program constants
MinApiInfoLen == 128
MinApiInfoFields == 3
DebugTgId == 685705504
MaxAge == 3600
HalfHour == 1800

\* --------------------------------------------------------------- universes
AllBots == {"bot1", "bot2"}
OtherTgId == DebugTgId + 1
TgIds == {DebugTgId, OtherTgId}
Keys == {<<"key", i>> : i \in 1..NumKeys}
Secrets == {<<"secret", i>> : i \in 1..2}
Labels == {<<"label", 1>>}

Nil == <<>>
None == [user |-> 0, fields |-> <<>>]

VARIABLES
    bots,         \* the bot processes of this deployment (never changes)
    users,        \* the chat users of this deployment (never changes)
    table,        \* the rows of the binding table t_table
    bind_enable,  \* bind_enable[b]: the module-level flag of bot process b
    binder,       \* history: the user whose /bind bot b handled last (0: none)
    cur,          \* cur[b]: the bind message bot b holds between select and insert
    threads,      \* threads[b]: bag of the threads bot b has started
    subThreads,   \* bag of the threads subscribe_user_data.main has started
    last,         \* the step just taken: process, handler, replies, exception
    update,       \* the command of the update the step just taken handled
    http,         \* the exchange requests the step just taken sent
    sub,          \* the subscriber thread under study (stream specification)
    sql,          \* the database statements the step just taken executed
    created,      \* whether the binding table exists in the database
    conns,        \* connections the helper calls of SpecSql opened and left open
    inbox,        \* history: the events for which the thread's callback had to notify
    outbox,       \* history: the notifications the thread's callback handed over
    trades        \* the trades of history_orders that b_orders has still to look at

vars == <<bots, users, table, bind_enable, binder, cur, threads, subThreads, last,
          update, http, sub, sql, created, conns, inbox, outbox, trades>>

\* ------------------------------------------------------------------ helpers
\* Python indexes from 0.
At(seq, i) == seq[i + 1]

Reply(kind, arg) == [kind |-> kind, arg |-> arg]

Step(proc, op, texts, raised) ==
    [proc |-> proc, op |-> op, texts |-> texts, raised |-> raised]

teltoken(b) == <<"token", b>>

Row(tg_id, api_lable, b_api_key, b_secret_key, tg_token) ==
    [tg_id |-> tg_id, api_lable |-> api_lable, b_api_key |-> b_api_key,
     b_secret_key |-> b_secret_key, tg_token |-> tg_token]

\* api_info = update.message.text.strip().replace(" ", "")
ApiInfoLen(text) == text.rawlen - text.blanks

Texts ==
    [rawlen : {MinApiInfoLen, MinApiInfoLen + 1},
     blanks : {0, 1},
     fields : {<<l>> : l \in Labels}
              \cup {<<l, k>> : l \in Labels, k \in Keys}
              \cup {<<l, k, s>> : l \in Labels, k \in Keys, s \in Secrets}]

\* ----------------------------------------------------------- sql_config.py
\* select_data: the rows the statement matches, or [] when execute raises.
select_data_empty(ok, rows) == {}

select_data_rows(ok, rows) == rows

select_data(ok, rows) == IF ok THEN rows ELSE {}

\* UNIQUE (b_api_key) of the create-table statement.
UniqueNone(tbl, row) == TRUE

UniqueOk(tbl, row) == \A r \in tbl : r.b_api_key # row.b_api_key

insert_data_replace(ok, tbl, row) ==
    IF ok
    THEN [result |-> TRUE,
          table |-> {r \in tbl : r.b_api_key # row.b_api_key} \cup {row}]
    ELSE [result |-> FALSE, table |-> tbl]

\* insert_data: True and the row committed, or False and the table as it was
\* (execute raised: the statement failed, or the key is a duplicate).
insert_data(ok, tbl, row) ==
    IF ok /\ UniqueOk(tbl, row)
    THEN [result |-> TRUE, table |-> tbl \cup {row}]
    ELSE [result |-> FALSE, table |-> tbl]

\* -------------------------------------------------------------- futures.py
\* urlencode(payload) raises TypeError for a non-empty sequence whose first
\* element is not a tuple; the handlers pass the row tuple itself.
RowPayload(r) == [kind |-> "tuple", items |-> <<r.b_api_key, r.b_secret_key, r.api_lable>>]

urlencode_raises(payload) == payload.kind = "tuple" /\ Len(payload.items) > 0

send_signed_request_raises(payload) == urlencode_raises(payload)

\* KEY = PKey, SECRET = SKey: the credentials of the settings module.
PKey == <<"key", 0>>
SKey == <<"secret", 0>>

EmptyDict == [kind |-> "dict", items |-> <<>>]

\* query_string = urlencode(payload), then "&timestamp=..." appended.
QueryString(payload) == payload.items \o <<"timestamp">>

\* hashing(query_string): the HMAC of the query string under SECRET.
hashing(query_string) == [secret |-> SKey, over |-> query_string]

\* send_signed_request once urlencode has returned: the request it sends.
send_signed_request(http_method, url_path, payload) ==
    [method |-> http_method, path |-> url_path,
     query |-> QueryString(payload),
     signature |-> hashing(QueryString(payload)),
     apikey |-> PKey]

\* The requests one call leaves on the wire: none when urlencode raises.
Sent(http_method, url_path, payload) ==
    IF send_signed_request_raises(payload)
    THEN <<>>
    ELSE <<send_signed_request(http_method, url_path, payload)>>

\* ------------------------------------------------------------- b_future.py
Idle(b) == b \in bots /\ cur[b] = None

HandledSent(b, op, texts, raised, requests) ==
    /\ last' = Step(b, op, texts, raised)
    /\ http' = requests
    /\ UNCHANGED <<bots, users, subThreads, sub, created, conns, inbox, outbox, trades>>

Handled(b, op, texts, raised) == HandledSent(b, op, texts, raised, <<>>)

tg_start(b, u) ==
    /\ Idle(b) /\ u \in users
    /\ sql' = <<>>
    /\ Handled(b, "start", <<Reply("Welcome", Nil), Reply("Help", Nil)>>, FALSE)
    /\ UNCHANGED <<table, bind_enable, binder, cur, threads>>

tg_help(b, u) ==
    /\ Idle(b) /\ u \in users
    /\ sql' = <<>>
    /\ Handled(b, "help", <<Reply("Help", Nil)>>, FALSE)
    /\ UNCHANGED <<table, bind_enable, binder, cur, threads>>

tg_bind_api(b, u) ==
    /\ Idle(b) /\ u \in users
    /\ sql' = <<>>
    /\ bind_enable' = [bind_enable EXCEPT ![b] = TRUE]
    /\ binder' = [binder EXCEPT ![b] = u]
    /\ Handled(b, "bind", <<Reply("EnterApi", Nil)>>, FALSE)
    /\ UNCHANGED <<table, cur, threads>>

TableKeys == {r.b_api_key : r \in table}

\* `if not bind_enable: return`
BindModeOffNever(b) == FALSE

BindModeOff(b) == ~bind_enable[b]

\* user_id = update.message.from_user.id
user_id_binder(b, u) == binder[b]

user_id(b, u) == u

\* The lookup made before the length test.
SelectsBeforeGuard(b, text) == ~BindModeOff(b)

\* bind_b_api reaches its select_data call (line 98): none of the three
\* returns is taken and api_info_list[1] exists.
Selects(b, text) ==
    /\ ~BindModeOff(b)
    /\ ApiInfoLen(text) >= MinApiInfoLen
    /\ ApiInfoLen(text) >= MinApiInfoFields
    /\ Len(text.fields) >= 2

\* bind_b_api, lines 85-106: from the flag test to the insert statement built.
TextMessage(b, u, text, ok) ==
    /\ Idle(b) /\ u \in users
    /\ sql' = IF Selects(b, text) THEN <<"select">> ELSE <<>>
    /\ UNCHANGED <<table, bind_enable, binder, threads>>
    /\ IF BindModeOff(b)
       THEN Handled(b, "text", <<>>, FALSE) /\ UNCHANGED cur
       ELSE IF ApiInfoLen(text) < MinApiInfoLen
       THEN Handled(b, "text", <<>>, FALSE) /\ UNCHANGED cur
       ELSE IF ApiInfoLen(text) < MinApiInfoFields
       THEN Handled(b, "text", <<>>, FALSE) /\ UNCHANGED cur
       ELSE IF Len(text.fields) < 2
       THEN \* api_info_list[1]: IndexError
            Handled(b, "text", <<>>, TRUE) /\ UNCHANGED cur
       ELSE LET results ==
                    select_data(ok, {r \in table : r.b_api_key = At(text.fields, 1)})
            IN  IF results # {}
                THEN Handled(b, "text", <<Reply("AlreadyBound", Nil)>>, FALSE)
                     /\ UNCHANGED cur
                ELSE IF Len(text.fields) < 3
                THEN \* api_info_list[2]: IndexError
                     Handled(b, "text", <<>>, TRUE) /\ UNCHANGED cur
                ELSE /\ cur' = [cur EXCEPT ![b] =
                                 [user |-> user_id(b, u), fields |-> text.fields]]
                     /\ Handled(b, "text", <<>>, FALSE)

\* The tuple bind_b_api hands to profit_order_start (line 113).
UserInfo(b, api_info_list) ==
    <<At(api_info_list, 1), At(api_info_list, 0), At(api_info_list, 2), teltoken(b)>>

Thread(target, user_info) == [target |-> target, args |-> user_info]

\* `if result:` ... `bind_enable = False`
bind_enable_reset(result, flag) == FALSE

bind_enable_kept(result, flag) == flag

bind_enable_after(result, flag) == IF result THEN FALSE ELSE flag

\* `if result:` ... `t = threading.Thread(target=profit_order_start, ...)`, `t.start()`
started_always(result, user_info) == SetToBag({Thread("profit_order_start", user_info)})

started(result, user_info) ==
    IF result THEN SetToBag({Thread("profit_order_start", user_info)}) ELSE EmptyBag

\* bind_b_api, lines 107-120: insert_data and what follows it.
TextInsert(b, ok) ==
    /\ b \in bots /\ cur[b] # None
    /\ sql' = <<"insert">>
    /\ LET api_info_list == cur[b].fields
           row == Row(cur[b].user, At(api_info_list, 0), At(api_info_list, 1),
                      At(api_info_list, 2), teltoken(b))
           res == insert_data(ok, table, row)
           user_info == UserInfo(b, api_info_list)
       IN  /\ table' = res.table
           /\ bind_enable' = [bind_enable EXCEPT ![b] = bind_enable_after(res.result, @)]
           /\ threads' = [threads EXCEPT ![b] = @ (+) started(res.result, user_info)]
           /\ IF res.result
              THEN Handled(b, "text", <<Reply("BindSuccess", Nil),
                                        Reply("Subscribed", At(user_info, 0))>>, FALSE)
              ELSE Handled(b, "text", <<Reply("BindFailed", Nil)>>, FALSE)
    /\ cur' = [cur EXCEPT ![b] = None]
    /\ UNCHANGED binder

\* The rows of a result set in the order the cursor returns them.
RECURSIVE Fetched(_)
Fetched(rows) ==
    IF rows = {}
    THEN <<>>
    ELSE LET r == CHOOSE x \in rows : TRUE
         IN  <<r>> \o Fetched(rows \ {r})

Outcome(texts, requests, raised) ==
    [texts |-> texts, requests |-> requests, raised |-> raised]

\* b_balance, lines 138-156: `for u_api in results`, then the grand total.
\* send_signed_request gets the row tuple u_api as its payload.
RECURSIVE BalanceLoop(_)
BalanceLoop(results) ==
    IF results = <<>>
    THEN Outcome(<<Reply("Total", Nil)>>, <<>>, FALSE)
    ELSE LET u_api == Head(results)
         IN  IF send_signed_request_raises(RowPayload(u_api))
             THEN Outcome(<<>>, <<>>, TRUE)
             ELSE LET rest == BalanceLoop(Tail(results))
                  IN  Outcome(<<Reply("Account", u_api.api_lable)>> \o rest.texts,
                              Sent("GET", "/fapi/v2/account", RowPayload(u_api))
                                  \o rest.requests,
                              rest.raised)

b_balance(b, u, ok) ==
    /\ Idle(b) /\ u \in users
    /\ sql' = <<"select">>
    /\ LET results == select_data(ok, {r \in table : r.tg_id = u})
           loop == BalanceLoop(Fetched(results))
       IN  IF results = {}
           THEN Handled(b, "balance", <<Reply("PleaseBind", Nil)>>, FALSE)
           ELSE HandledSent(b, "balance", <<Reply("Calculating", Nil)>> \o loop.texts,
                            loop.raised, loop.requests)
    /\ UNCHANGED <<table, bind_enable, binder, cur, threads>>

\* b_orders, lines 222-223: the arguments of the userTrades call made for
\* binding `result`; the credentials argument is results[0].
TradesCall(results, result) ==
    <<"GET", "/fapi/v1/userTrades", RowPayload(Head(results)), "symbol">>

\* send_signed_request(http_method, url_path, payload={}) takes at most
\* three positional arguments: a fourth is a TypeError.
call_raises(args) == Len(args) > 3

\* b_orders, lines 191-223: the first pass of `for result in results`.
\* The account request gets the row tuple result as its payload; past it,
\* the userTrades call of the account's first symbol comes next.
b_orders(b, u, ok) ==
    /\ Idle(b) /\ u \in users
    /\ sql' = <<"select">>
    /\ LET results == select_data(ok, {r \in table : r.tg_id = u})
       IN  IF results = {}
           THEN Handled(b, "orders", <<Reply("PleaseBind", Nil)>>, FALSE)
           ELSE LET result == Head(Fetched(results))
                IN  HandledSent(b, "orders", <<Reply("Querying", Nil)>>,
                                \/ send_signed_request_raises(RowPayload(result))
                                \/ call_raises(TradesCall(Fetched(results), result)),
                                Sent("GET", "/fapi/v2/account", RowPayload(result)))
    /\ UNCHANGED <<table, bind_enable, binder, cur, threads>>

\* b_orders, lines 230-301, on one list of history_orders: the trades the
\* exchange returned, each with its age in seconds at the time of the query
\* and its realised profit.
Ages == {0, HalfHour, HalfHour + 1, MaxAge, MaxAge + 1}

Trades == [age : Ages, realizedPnl : {-1, 0, 1}]

\* `if time() - float(time_)/1000 > 60*60: continue`
Skipped(info) == info.age > MaxAge

\* The trade messages sent so far in this run of the loop.
Reported == IF last.op = "userTrades" THEN last.texts ELSE <<>>

\* One pass of `for info in history_orders`.
ReportTrade(b) ==
    /\ b \in bots
    /\ trades # <<>>
    /\ LET info == Head(trades)
       IN  last' = Step(b, "userTrades",
                        IF Skipped(info)
                        THEN Reported
                        ELSE Append(Reported, Reply("Trade", info)),
                        FALSE)
    /\ trades' = Tail(trades)
    /\ update' = "orders"
    /\ http' = <<>>
    /\ sql' = <<>>
    /\ UNCHANGED <<bots, users, table, bind_enable, binder, cur, threads, subThreads>>
    /\ UNCHANGED <<sub, created, conns, inbox, outbox>>

\* Lines 298-301: `if not have_order` ... else ...
OrdersEnd(b) ==
    /\ b \in bots
    /\ trades = <<>>
    /\ last.op \in {"init", "userTrades"}
    /\ last' = Step(b, "orders_end",
                    Append(Reported, IF Reported = <<>>
                                     THEN Reply("NoRecent", Nil)
                                     ELSE Reply("Done", Nil)),
                    FALSE)
    /\ update' = "orders"
    /\ http' = <<>>
    /\ sql' = <<>>
    /\ UNCHANGED <<bots, users, table, bind_enable, binder, cur, threads, subThreads>>
    /\ UNCHANGED <<sub, created, conns, inbox, outbox, trades>>

\* stop_ws: one order_stop thread per selected row of the debug user.
stop_ws(b, u, ok) ==
    /\ Idle(b) /\ u \in users
    /\ sql' = <<"select">>
    /\ LET all_users == select_data(ok, table)
           mine == Fetched({r \in all_users : r.tg_id = DebugTgId})
       IN  /\ threads' = [threads EXCEPT ![b] = @ (+) SetToBag(
                   {Thread("order_stop", <<mine[i].api_lable, mine[i].tg_id,
                                           mine[i].b_api_key, mine[i].b_secret_key,
                                           mine[i].tg_token>>) : i \in 1..Len(mine)})]
           /\ IF all_users = {}
              THEN Handled(b, "stopPush", <<Reply("PleaseBind", Nil)>>, FALSE)
              ELSE Handled(b, "stopPush",
                           [i \in 1..Len(mine) |-> Reply("Stopped", mine[i].api_lable)],
                           FALSE)
    /\ UNCHANGED <<table, bind_enable, binder, cur>>

\* main: the handlers in the order dp.add_handler registers them.  The
\* commands allOrders, profitOrders and stopPush are not registered.
CommandHandler(command, callback) ==
    [kind |-> "command", command |-> command, callback |-> callback]

MessageHandler(filters, callback) ==
    [kind |-> "message", command |-> filters, callback |-> callback]

handlers_stop ==
    <<CommandHandler("start", "tg_start"),
      CommandHandler("help", "tg_help"),
      CommandHandler("balance", "b_balance"),
      CommandHandler("orders", "b_orders"),
      CommandHandler("bind", "tg_bind_api"),
      CommandHandler("stopPush", "stop_ws"),
      MessageHandler("text", "bind_b_api")>>

handlers_text_first ==
    <<MessageHandler("text", "bind_b_api"),
      CommandHandler("start", "tg_start"),
      CommandHandler("help", "tg_help"),
      CommandHandler("balance", "b_balance"),
      CommandHandler("orders", "b_orders"),
      CommandHandler("bind", "tg_bind_api")>>

handlers ==
    <<CommandHandler("start", "tg_start"),
      CommandHandler("help", "tg_help"),
      CommandHandler("balance", "b_balance"),
      CommandHandler("orders", "b_orders"),
      CommandHandler("bind", "tg_bind_api"),
      MessageHandler("text", "bind_b_api")>>

\* The text updates a chat can send: a command ("" when the text is not a
\* command).  stopPush stands for the commands main does not register.
Updates == {"start", "help", "balance", "orders", "bind", "stopPush", ""}

\* check_update: a CommandHandler takes its own command, a
\* MessageHandler(Filters.text) takes every text message, commands included.
Matches(h, upd) == IF h.kind = "command" THEN h.command = upd ELSE TRUE

\* Dispatcher.process_update: the first handler of the group that matches.
RECURSIVE FirstMatch(_, _)
FirstMatch(hs, upd) ==
    IF hs = <<>>
    THEN "none"
    ELSE IF Matches(Head(hs), upd) THEN Head(hs).callback ELSE FirstMatch(Tail(hs), upd)

Route_stop(upd) == FirstMatch(handlers_stop, upd)

Route_text_first(upd) == FirstMatch(handlers_text_first, upd)

Route(upd) == FirstMatch(handlers, upd)

\* The text of an update: "/stopPush" for the command, any text otherwise.
TextsOf(upd) ==
    IF upd = ""
    THEN Texts
    ELSE {[rawlen |-> 9, blanks |-> 0, fields |-> <<<<"label", 0>>>>]}

Dispatch(upd, callback) == Route(upd) = callback /\ update' = upd

\* ------------------------------------------------- subscribe_user_data.py
\* The module defines all_order_start, profit_order_start and order_stop;
\* main names order_start.
order_start_defined == FALSE

\* main: one thread per selected row of the debug user, until the thread
\* target fails to resolve.
SubMainStarted(all_users) ==
    IF order_start_defined
    THEN SetToBag({Thread("order_start",
                          <<r.api_lable, r.tg_id, r.b_api_key, r.b_secret_key, r.tg_token>>) :
                   r \in {x \in all_users : x.tg_id = DebugTgId}})
    ELSE EmptyBag

SubMain(ok) ==
    /\ LET all_users == select_data(ok, table)
       IN  /\ subThreads' = SubMainStarted(all_users)
           /\ last' = Step("subscriber", IF ok THEN "main" ELSE "main_select_failed", <<>>,
                           ~order_start_defined
                           /\ \E r \in all_users : r.tg_id = DebugTgId)
    /\ update' = "none"
    /\ http' = <<>>
    /\ sql' = <<"select">>
    /\ UNCHANGED <<bots, users, table, bind_enable, binder, cur, threads, sub>>
    /\ UNCHANGED <<created, conns, inbox, outbox, trades>>

\* The subscriber threads, one at a time: profit_order_start and
\* all_order_start run on a user_info tuple, obtain a listen key, subscribe,
\* and from then on the library calls callback and error.
NoSub == [target |-> "none", user_info |-> <<>>, state |-> "none", listen_keys |-> 0]

Targets == {"profit_order_start", "all_order_start"}

Rows == {Row(u, l, k, s, teltoken(b)) :
            u \in TgIds, l \in Labels, k \in Keys, s \in Secrets, b \in AllBots}

\* `select api_lable, tg_id, b_api_key, b_secret_key, tg_token`: the layout
\* the docstrings of the thread functions name.
RowInfo(r) == <<r.api_lable, r.tg_id, r.b_api_key, r.b_secret_key, r.tg_token>>

UserInfos ==
    {UserInfo(b, <<l, k, s>>) : b \in AllBots, l \in Labels, k \in Keys, s \in Secrets}
    \cup {RowInfo(r) : r \in Rows}

\* What the Telegram API does with a sendMessage request.
Outcomes == {"delivered", "rejected", "unreachable"}

ResponseJson(outcome) == IF outcome = "delivered" THEN <<"ok">> ELSE <<"error">>

Result(returned, raised) == [returned |-> returned, raised |-> raised]

\* b_future.tg_bot_send_text: requests.get and response.json(), unguarded.
b_future_tg_bot_send_text(outcome) ==
    IF outcome = "unreachable"
    THEN Result(Nil, TRUE)
    ELSE Result(ResponseJson(outcome), FALSE)

tg_bot_send_text_unguarded(outcome) == b_future_tg_bot_send_text(outcome)

\* subscribe_user_data.tg_bot_send_text: `except Exception` returns {}.
tg_bot_send_text(outcome) ==
    IF outcome = "unreachable"
    THEN Result(Nil, FALSE)
    ELSE Result(ResponseJson(outcome), FALSE)

\* What the library hands to callback: a data type and an event.  Only an
\* ORDER_TRADE_UPDATE carries order fields.
OrderEvents ==
    [data_type : {"PAYLOAD"},
     eventType : {"ORDER_TRADE_UPDATE"},
     orderStatus : {"NEW", "CANCELED", "PARTIALLY_FILLED", "FILLED", "EXPIRED"},
     executionType : {"NEW", "TRADE"},
     isMarkerSide : BOOLEAN,
     orderProfit : {-1, 0, 1}]

OtherEvents ==
    [data_type : {"RESPONSE", "OTHER"},
     eventType : {"none"},
     orderStatus : {"none"},
     executionType : {"none"},
     isMarkerSide : {FALSE},
     orderProfit : {0}]
    \cup
    [data_type : {"PAYLOAD"},
     eventType : {"ACCOUNT_UPDATE", "listenKeyExpired"},
     orderStatus : {"none"},
     executionType : {"none"},
     isMarkerSide : {FALSE},
     orderProfit : {0}]

Events == OrderEvents \cup OtherEvents

EventName(e) == IF e.data_type = "PAYLOAD" THEN e.eventType ELSE e.data_type

Payload(e, eventType) == e.data_type = "PAYLOAD" /\ e.eventType = eventType

\* The events for which callback reaches a tg_bot_send_text call.
NotifiesAlways(target, e) == e.data_type = "PAYLOAD"

NotifiesOrders(target, e) == Payload(e, "ORDER_TRADE_UPDATE")

Notifies(target, e) ==
    /\ Payload(e, "ORDER_TRADE_UPDATE")
    /\ IF target = "profit_order_start"
       THEN e.orderProfit # 0
       ELSE \/ e.orderStatus \in {"NEW", "CANCELED"} /\ ~e.isMarkerSide
            \/ e.orderStatus \in {"PARTIALLY_FILLED", "FILLED"} /\ e.executionType = "TRADE"

Notification(user_info, outcome, result) ==
    Reply("Notify", [account |-> At(user_info, 0), chat_id |-> At(user_info, 1),
                     tg_token |-> At(user_info, 4), outcome |-> outcome,
                     returned |-> result.returned])

\* callback(data_type, event): the messages sent and whether it raised.
\* user_info[4] is an IndexError on a tuple of four.
callback(target, user_info, e, outcome) ==
    IF ~Notifies(target, e)
    THEN Outcome(<<>>, <<>>, FALSE)
    ELSE IF Len(user_info) < 5
    THEN Outcome(<<>>, <<>>, TRUE)
    ELSE LET result == tg_bot_send_text(outcome)
         IN  Outcome(<<Notification(user_info, outcome, result)>>, <<>>, result.raised)

\* The exchange issues a listen key to a request that carries an API key.
IsApiKey(value) == value \in Keys \cup {PKey}

Quiet ==
    /\ update' = "none"
    /\ http' = <<>>
    /\ sql' = <<>>
    /\ UNCHANGED <<bots, users, table, bind_enable, binder, cur, threads, subThreads>>
    /\ UNCHANGED <<created, conns, trades>>

\* Lines 405-420 (292-303): RequestClient(api_key=user_info[2], ...),
\* start_user_data_stream, keep_user_data_stream, subscribe_user_data_event.
StreamStart(ok) ==
    /\ sub.state = "running"
    /\ IF ok /\ IsApiKey(At(sub.user_info, 2))
       THEN /\ sub' = [sub EXCEPT !.state = "subscribed", !.listen_keys = @ + 1]
            /\ last' = Step("thread", "start", <<>>, FALSE)
       ELSE /\ sub' = [sub EXCEPT !.state = "died"]
            /\ last' = Step("thread", "start", <<>>, TRUE)
    /\ UNCHANGED <<inbox, outbox>>
    /\ Quiet

\* What the thread does about a listenKeyExpired event or a dropped
\* connection: it prints.
on_lost_resubscribe(s, state) == [s EXCEPT !.state = "subscribed", !.listen_keys = @ + 1]

on_lost(s, state) == [s EXCEPT !.state = state]

\* The library calls callback with an event of the stream.
Delivered(e, outcome) ==
    /\ sub.state = "subscribed"
    /\ LET res == callback(sub.target, sub.user_info, e, outcome)
       IN  last' = Step("thread", EventName(e), res.texts, res.raised)
    /\ sub' = IF Payload(e, "listenKeyExpired") THEN on_lost(sub, "expired") ELSE sub
    /\ Quiet

StreamEvent(e, outcome) ==
    /\ Delivered(e, outcome)
    /\ UNCHANGED <<inbox, outbox>>

\* The same call with its history kept: the realised profit of every
\* ORDER_TRADE_UPDATE received so far, and the profit each message handed to
\* tg_bot_send_text reports, both in order.
ProfitEvent(e, outcome) ==
    /\ Payload(e, "ORDER_TRADE_UPDATE") => Len(inbox) < MaxEvents
    /\ Delivered(e, outcome)
    /\ inbox' = IF Payload(e, "ORDER_TRADE_UPDATE")
                THEN Append(inbox, e.orderProfit)
                ELSE inbox
    /\ outbox' = outbox \o [i \in 1..Len(last'.texts) |-> e.orderProfit]

\* The connection drops: the library calls error(e).
StreamError ==
    /\ sub.state = "subscribed"
    /\ last' = Step("thread", "error", <<>>, FALSE)
    /\ sub' = on_lost(sub, "dropped")
    /\ UNCHANGED <<inbox, outbox>>
    /\ Quiet

\* b_future.tg_bot_send_text applied to a message for a chat.
BotSendText(b, outcome) ==
    /\ b \in bots
    /\ LET result == b_future_tg_bot_send_text(outcome)
       IN  last' = Step(b, "tg_bot_send_text",
                        <<Reply("Send", [outcome |-> outcome, returned |-> result.returned])>>,
                        result.raised)
    /\ UNCHANGED <<sub, inbox, outbox>>
    /\ Quiet

\* --------------------------------------- sql_config.py, call by call
\* The helpers of sql_config.py called one after the other on a database in
\* which the table may not exist yet; a statement on a missing table fails.
SqlFrame ==
    /\ update' = "none"
    /\ http' = <<>>
    /\ UNCHANGED <<bots, users, bind_enable, binder, cur, threads, subThreads, sub>>
    /\ UNCHANGED <<inbox, outbox, trades>>

\* `create table IF NOT EXISTS`: an existing table keeps its rows.
CreateAnew(exists, rows) == [created |-> TRUE, table |-> {}]

CreateIfNotExists(exists, rows) == [created |-> TRUE, table |-> IF exists THEN rows ELSE {}]

\* create_table: db.close() follows the try statement on both paths.
create_table(ok) ==
    /\ LET res == IF ok
                  THEN CreateIfNotExists(created, table)
                  ELSE [created |-> created, table |-> table]
       IN  /\ created' = res.created
           /\ table' = res.table
    /\ sql' = <<"create", "create">>
    /\ conns' = conns
    /\ last' = Step("sql", "create_table", <<>>, FALSE)
    /\ SqlFrame

\* insert_data: db.close() is inside the try block, after db.commit().
InsertData(row, ok) ==
    /\ conns < MaxOpen
    /\ LET res == insert_data(ok /\ created, table, row)
       IN  /\ table' = res.table
           /\ conns' = IF res.result THEN conns ELSE conns + 1
           /\ last' = Step("sql", "insert_data", <<Reply("Returned", res.result)>>, FALSE)
    /\ sql' = <<"insert">>
    /\ UNCHANGED created
    /\ SqlFrame

\* select_data: db.close() is inside the try block, after fetchall().
SelectData(ok) ==
    /\ conns < MaxOpen
    /\ LET results == select_data(ok /\ created, table)
       IN  /\ conns' = IF ok /\ created THEN conns ELSE conns + 1
           /\ last' = Step("sql", "select_data", <<Reply("Returned", results)>>, FALSE)
    /\ sql' = <<"select">>
    /\ UNCHANGED <<table, created>>
    /\ SqlFrame

\* b_future.main: the Updater, the handlers, start_polling; no statement.
BotMain(b) ==
    /\ b \in bots
    /\ last' = Step(b, "main", <<>>, FALSE)
    /\ sql' = <<>>
    /\ UNCHANGED <<table, created, conns>>
    /\ SqlFrame

\* ----------------------------------------------------------- specification
InitCommon ==
    /\ table = {}
    /\ bind_enable = [b \in AllBots |-> FALSE]
    /\ binder = [b \in AllBots |-> 0]
    /\ cur = [b \in AllBots |-> None]
    /\ threads = [b \in AllBots |-> EmptyBag]
    /\ subThreads = EmptyBag
    /\ last = Step("none", "init", <<>>, FALSE)
    /\ update = "none"
    /\ http = Sent("GET", "/fapi/v1/trades?symbol=TRXUSDT", EmptyDict)
    /\ sql = <<>>
    /\ conns = 0
    /\ inbox = <<>>
    /\ outbox = <<>>

\* One bot process, two chat users.
Init ==
    /\ bots = {"bot1"}
    /\ users = TgIds
    /\ InitCommon
    /\ sub = NoSub
    /\ created = TRUE
    /\ trades = <<>>

\* Two bot processes on the same table, one chat user.
InitShared ==
    /\ bots = AllBots
    /\ users = {DebugTgId}
    /\ InitCommon
    /\ sub = NoSub
    /\ created = TRUE
    /\ trades = <<>>

\* One thread function started on a user_info tuple of either layout.
InitStream ==
    /\ bots = {"bot1"}
    /\ users = TgIds
    /\ InitCommon
    /\ sub \in {[target |-> t, user_info |-> ui, state |-> "running", listen_keys |-> 0] :
                 t \in Targets, ui \in UserInfos}
    /\ created = TRUE
    /\ trades = <<>>

Start == \E b \in AllBots, u \in TgIds : Dispatch("start", "tg_start") /\ tg_start(b, u)
Help == \E b \in AllBots, u \in TgIds : Dispatch("help", "tg_help") /\ tg_help(b, u)
Bind == \E b \in AllBots, u \in TgIds : Dispatch("bind", "tg_bind_api") /\ tg_bind_api(b, u)
Text ==
    \E b \in AllBots, u \in TgIds, upd \in Updates, ok \in BOOLEAN :
        IF Route(upd) = "stop_ws"
        THEN Dispatch(upd, "stop_ws") /\ stop_ws(b, u, ok)
        ELSE Dispatch(upd, "bind_b_api") /\ \E text \in TextsOf(upd) : TextMessage(b, u, text, ok)
Insert == \E b \in AllBots, ok \in BOOLEAN : TextInsert(b, ok) /\ UNCHANGED update
Balance ==
    \E b \in AllBots, u \in TgIds, ok \in BOOLEAN :
        Dispatch("balance", "b_balance") /\ b_balance(b, u, ok)
Orders ==
    \E b \in AllBots, u \in TgIds, ok \in BOOLEAN :
        Dispatch("orders", "b_orders") /\ b_orders(b, u, ok)
Subscriber == \E ok \in BOOLEAN : SubMain(ok)

Next ==
    \/ Start
    \/ Help
    \/ Bind
    \/ Text
    \/ Insert
    \/ Balance
    \/ Orders
    \/ Subscriber

Spec == Init /\ [][Next]_vars

SpecShared == InitShared /\ [][Next]_vars

Connect == \E ok \in BOOLEAN : StreamStart(ok)
Event == \E e \in Events, outcome \in Outcomes : StreamEvent(e, outcome)
Drop == StreamError
Send == \E b \in AllBots, outcome \in Outcomes : BotSendText(b, outcome)

NextStream ==
    \/ Connect
    \/ Event
    \/ Drop
    \/ Send

SpecStream == InitStream /\ [][NextStream]_vars

\* profit_order_start started on a user_info tuple of either layout.
InitProfit ==
    /\ bots = {"bot1"}
    /\ users = TgIds
    /\ InitCommon
    /\ sub \in {[target |-> "profit_order_start", user_info |-> ui,
                  state |-> "running", listen_keys |-> 0] : ui \in UserInfos}
    /\ created = TRUE
    /\ trades = <<>>

ProfitEvents == \E e \in Events, outcome \in Outcomes : ProfitEvent(e, outcome)

NextProfit ==
    \/ Connect
    \/ ProfitEvents
    \/ Drop

SpecProfit == InitProfit /\ [][NextProfit]_vars

\* A database without the table, before anything has run.
InitSql ==
    /\ bots = {"bot1"}
    /\ users = TgIds
    /\ InitCommon
    /\ sub = NoSub
    /\ created = FALSE
    /\ trades = <<>>

CreateTable == \E ok \in BOOLEAN : create_table(ok)
InsertRow == \E row \in Rows, ok \in BOOLEAN : InsertData(row, ok)
SelectRows == \E ok \in BOOLEAN : SelectData(ok)
StartBot == \E b \in AllBots : BotMain(b)

NextSql ==
    \/ CreateTable
    \/ InsertRow
    \/ SelectRows
    \/ StartBot

SpecSql == InitSql /\ [][NextSql]_vars

\* b_orders holding a list of history_orders, none looked at yet.
InitOrders ==
    /\ bots = {"bot1"}
    /\ users = TgIds
    /\ InitCommon
    /\ sub = NoSub
    /\ created = TRUE
    /\ trades \in UNION {[1..n -> Trades] : n \in 0..MaxTrades}

Report == \E b \in AllBots : ReportTrade(b)
Finish == \E b \in AllBots : OrdersEnd(b)

NextOrders ==
    \/ Report
    \/ Finish

SpecOrders == InitOrders /\ [][NextOrders]_vars

\* ------------------------------------------------------------------ claims
BotStep(b) == last'.proc = b /\ last'.op = "text"

\* Bot b ends a run of bind_b_api in this step.
TextEnds(b) == BotStep(b) /\ cur'[b] = None /\ vars' # vars

WellFormed(text) == ApiInfoLen(text) >= MinApiInfoLen /\ Len(text.fields) >= 3

NoEffect(b) ==
    /\ table' = table
    /\ threads' = threads
    /\ bind_enable' = bind_enable

\* C1: in every reachable state of the binding table, whatever the
\* interleaving of the bind_b_api runs of the two bot processes sharing it,
\* no two rows have the same API key.
C1_ApiKeyUnique ==
    \A r1 \in table, r2 \in table : r1.b_api_key = r2.b_api_key => r1 = r2

\* A row of bot1 is in the table while bot2, past its own uniqueness check,
\* is about to insert the same key.
C1_Witness ==
    \E r \in table :
        /\ r.tg_token = teltoken("bot1")
        /\ cur["bot2"] # None
        /\ At(cur["bot2"].fields, 1) = r.b_api_key

\* C2: the select and the insert of bind_b_api are separate statements, so
\* two binds of one key can both be past the check; the insert that comes
\* second changes nothing and is answered 'binding failed, please retry',
\* not 'already bound'.
C2_RaceLoserGetsBindFailed ==
    [][\A b \in AllBots :
          (cur[b] # None /\ TextEnds(b) /\ At(cur[b].fields, 1) \in TableKeys)
          => /\ last'.texts = <<Reply("BindFailed", Nil)>>
             /\ NoEffect(b)]_vars

\* bot b1 has just committed a key that b2, past its check, still holds.
C2_Witness ==
    \E b1 \in AllBots, b2 \in AllBots :
        /\ b1 # b2
        /\ last.proc = b1 /\ last.op = "text"
        /\ Len(last.texts) = 2
        /\ last.texts[2].kind = "Subscribed"
        /\ cur[b2] # None
        /\ At(cur[b2].fields, 1) = last.texts[2].arg

\* C3 (as stated): a run of bind_b_api with bind mode on, on a message
\* whose API key is in the table, replies 'already bound' and changes nothing.
C3_Original ==
    [][\A b \in AllBots :
          (cur[b] # None /\ TextEnds(b) /\ At(cur[b].fields, 1) \in TableKeys)
          => /\ last'.texts = <<Reply("AlreadyBound", Nil)>>
             /\ NoEffect(b)]_vars

\* C3 (amended): with bind mode on, a message of at least 128 characters
\* whose second line is a key of the table changes neither table, threads
\* nor flag; the reply is 'already bound' when the lookup returns the row,
\* and when the lookup fails a three-field message goes on to the insert,
\* which is rejected with 'binding failed'.
C3_AlreadyBoundWhenLookupSucceeds ==
    [][\A b \in AllBots :
          /\ (BotStep(b) /\ bind_enable[b] /\ cur[b] = None)
                => \A u \in TgIds, text \in Texts :
                      (/\ ApiInfoLen(text) >= MinApiInfoLen
                       /\ Len(text.fields) >= 2
                       /\ At(text.fields, 1) \in TableKeys
                       /\ TextMessage(b, u, text, TRUE))
                      => /\ last' = Step(b, "text", <<Reply("AlreadyBound", Nil)>>, FALSE)
                         /\ cur'[b] = None
                         /\ NoEffect(b)
          /\ (cur[b] # None /\ TextEnds(b) /\ At(cur[b].fields, 1) \in TableKeys)
                => /\ last' = Step(b, "text", <<Reply("BindFailed", Nil)>>, FALSE)
                   /\ NoEffect(b)]_vars

C3_Witness ==
    /\ last.op = "text"
    /\ last.texts = <<Reply("AlreadyBound", Nil)>>
    /\ bind_enable[last.proc]
    /\ table # {}

\* C4: a free-text message handled while the bind-mode flag is off creates
\* no row, sends no reply and starts no thread, whatever its content; a row
\* is created only by a bot whose flag a /bind has turned on.
C4_TextIgnoredWhenBindModeOff ==
    [][/\ \A b \in AllBots :
            (BotStep(b) /\ ~bind_enable[b])
            => /\ last' = Step(b, "text", <<>>, FALSE)
               /\ cur'[b] = None
               /\ NoEffect(b)
       /\ table' # table
            => \E b \in AllBots :
                   /\ BotStep(b)
                   /\ bind_enable[b] /\ binder[b] # 0 /\ cur[b] # None]_vars

\* After a successful bind the flag is off again and a text message was ignored.
C4_Witness ==
    /\ last = Step("bot1", "text", <<>>, FALSE)
    /\ ~bind_enable["bot1"]
    /\ cur["bot1"] = None
    /\ table # {}

C6_RowsNeverChange == [][table \subseteq table']_vars

\* Two rows are in the table and a command has been handled since.
C6_Witness ==
    /\ Cardinality(table) >= 2
    /\ last.op \in {"balance", "orders"}
    /\ last.raised

\* C7 (as stated): no user id has more than one binding row.
C7_Original ==
    \A u \in TgIds : Cardinality(select_data(TRUE, {r \in table : r.tg_id = u})) <= 1

\* C7 (amended): a lookup by user id returns one row per API key that user
\* has bound, zero, one or several: the rows of a user differ in their key.
C7_OneRowPerUserAndKey ==
    \A u \in TgIds :
        LET results == select_data(TRUE, {r \in table : r.tg_id = u})
        IN  Cardinality(results) = Cardinality({r.b_api_key : r \in results})

\* /balance has been handled for a user who holds two rows.
C7_Witness ==
    /\ last.op = "balance"
    /\ \E u \in TgIds : Cardinality({r \in table : r.tg_id = u}) >= 2
    /\ Len(last.texts) = 1
    /\ last.texts[1].kind = "Calculating"

C10_Claim ==
    (last.proc = "subscriber" /\ last.op = "main")
    => BagCardinality(subThreads) = Cardinality(table)

\* C11: a subscriber thread, once started, is never joined, cancelled or
\* stopped by the bot: the threads of a bot process only accumulate, no
\* update is routed to stop_ws (so no order_stop thread exists), and the
\* step that starts a thread is the step that sends the 'subscribed' reply
\* and ends the handler.
C11_ThreadsFireAndForget ==
    [][\A b \in AllBots :
          /\ threads[b] \sqsubseteq threads'[b]
          /\ \A t \in BagToSet(threads'[b]) : t.target # "order_stop"
          /\ Route(update') # "stop_ws"
          /\ threads'[b] # threads[b]
                => /\ last'.proc = b /\ last'.op = "text" /\ ~last'.raised
                   /\ Len(last'.texts) = 2
                   /\ last'.texts[2].kind = "Subscribed"
                   /\ cur'[b] = None]_vars

\* A thread is running and the bot has just handled /stopPush, as text.
C11_Witness ==
    /\ last.proc = "bot1"
    /\ update = "stopPush"
    /\ last.op = "text"
    /\ threads["bot1"] # EmptyBag
    /\ \E r \in table : r.tg_id = DebugTgId

\* A step of the subscriber thread that handles a lost stream: the
\* listenKeyExpired event, or the error call of a dropped connection.
StreamLost ==
    /\ sub.state = "subscribed"
    /\ last'.proc = "thread"
    /\ last'.op \in {"listenKeyExpired", "error"}

PayloadStep ==
    /\ sub.state = "subscribed"
    /\ last'.proc = "thread"
    /\ last'.op \in {"ACCOUNT_UPDATE", "ORDER_TRADE_UPDATE", "listenKeyExpired"}

\* C13 (as stated): the callback sends a notification for each event it
\* receives, ACCOUNT_UPDATE, ORDER_TRADE_UPDATE and listenKeyExpired alike.
C13_Original == [][PayloadStep => Len(last'.texts) = 1]_vars

\* C13 (amended): the callback calls tg_bot_send_text once for an
\* ORDER_TRADE_UPDATE that passes the filter of its thread function
\* (profit_order_start: realised profit not zero; all_order_start: NEW or
\* CANCELED and not maker side, or PARTIALLY_FILLED or FILLED with execution
\* type TRADE) and not at all for any other event; the message goes to
\* the chat and through the bot token of the thread's user_info.
C13_NotifiesOnOrderUpdatesOnly ==
    [][\A e \in Events, outcome \in Outcomes :
          (sub.state = "subscribed" /\ last'.proc = "thread" /\ StreamEvent(e, outcome))
          => LET passes ==
                     /\ e.data_type = "PAYLOAD"
                     /\ e.eventType = "ORDER_TRADE_UPDATE"
                     /\ \/ /\ sub.target = "profit_order_start"
                           /\ e.orderProfit # 0
                        \/ /\ sub.target = "all_order_start"
                           /\ e.orderStatus \in {"NEW", "CANCELED"}
                           /\ ~e.isMarkerSide
                        \/ /\ sub.target = "all_order_start"
                           /\ e.orderStatus \in {"PARTIALLY_FILLED", "FILLED"}
                           /\ e.executionType = "TRADE"
             IN  /\ ~last'.raised
                 /\ Len(last'.texts) = (IF passes THEN 1 ELSE 0)
                 /\ passes => /\ last'.texts[1].kind = "Notify"
                              /\ last'.texts[1].arg.chat_id = At(sub.user_info, 1)
                              /\ last'.texts[1].arg.tg_token = At(sub.user_info, 4)]_vars

\* A subscribed all_order_start thread has just handled an ACCOUNT_UPDATE
\* without sending a message.
C13_Witness ==
    /\ sub.state = "subscribed"
    /\ sub.target = "all_order_start"
    /\ last = Step("thread", "ACCOUNT_UPDATE", <<>>, FALSE)

\* C14 (as stated): whenever the delivery of a message fails,
\* tg_bot_send_text returns an empty result and raises nothing.
C14_Claim ==
    \A i \in DOMAIN last.texts :
        (/\ last.texts[i].kind \in {"Notify", "Send"}
         /\ last.texts[i].arg.outcome # "delivered")
        => /\ last.texts[i].arg.returned = Nil
           /\ ~last.raised

\* The request req is the signed request of binding r: the timestamp is the
\* last query parameter, the signature is over the query string sent and
\* under r's secret, the header carries r's API key, and neither the key nor
\* the secret is a query parameter.
SignedFor(req, r) ==
    /\ req.query # <<>>
    /\ req.query[Len(req.query)] = "timestamp"
    /\ req.signature = [secret |-> r.b_secret_key, over |-> req.query]
    /\ req.apikey = r.b_api_key
    /\ \A i \in DOMAIN req.query : req.query[i] \notin {r.b_api_key, r.b_secret_key}

\* A handler has just made its exchange calls for the bindings of a user.
ExchangeCalled ==
    /\ last.op \in {"balance", "orders"}
    /\ last.texts # <<>>
    /\ last.texts[1].kind \in {"Calculating", "Querying"}

\* C15 (as stated): each exchange call of /balance and /orders sends a signed
\* request of the binding it is made for: timestamp last, signed under that
\* binding's secret, that binding's API key in the header, no key or secret
\* among the query parameters.
C15_Claim ==
    ExchangeCalled
    => /\ http # <<>>
       /\ \A i \in DOMAIN http : \E r \in table : SignedFor(http[i], r)

\* C16 (as stated): send_signed_request never raises into the handler that
\* calls it: no run of /balance or /orders ends in an exception.
C16_Claim == ExchangeCalled => ~last.raised

\* C17: when the insert of a bind fails (the statement fails or the key is
\* a duplicate), the handler ends with the single reply 'binding failed,
\* please retry', the table and the threads are as before, and the bind-mode
\* flag is still on with no bind pending, so the next text is bind input.
C17_FailedInsertKeepsBindMode ==
    [][\A b \in AllBots, ok \in BOOLEAN :
          (/\ cur[b] # None
           /\ TextInsert(b, ok)
           /\ (~ok \/ At(cur[b].fields, 1) \in TableKeys))
          => /\ last' = Step(b, "text", <<Reply("BindFailed", Nil)>>, FALSE)
             /\ table' = table
             /\ threads' = threads
             /\ bind_enable'[b]
             /\ cur'[b] = None]_vars

\* The insert statement itself has failed (the table is empty, so the key
\* was no duplicate) and the bot is in bind mode with no bind pending.
C17_Witness ==
    /\ table = {}
    /\ last = Step("bot1", "text", <<Reply("BindFailed", Nil)>>, FALSE)
    /\ bind_enable["bot1"]
    /\ cur["bot1"] = None
    /\ threads["bot1"] = EmptyBag

\* C18: a lookup that fails looks like a lookup that finds nothing.  /balance
\* and /orders whose select fails reply 'please bind an API first' and
\* nothing else, and send no exchange request, whatever the table holds; the
\* uniqueness lookup of bind_b_api failing on a well-formed message whose
\* key is bound sends no reply and goes on to the insert.
C18_FailedLookupLooksEmpty ==
    [][\A b \in AllBots :
          /\ (last'.proc = b /\ last'.op \in {"balance", "orders"})
             => \A u \in TgIds :
                   /\ b_balance(b, u, FALSE)
                      => /\ last' = Step(b, "balance", <<Reply("PleaseBind", Nil)>>, FALSE)
                         /\ http' = <<>>
                   /\ b_orders(b, u, FALSE)
                      => /\ last' = Step(b, "orders", <<Reply("PleaseBind", Nil)>>, FALSE)
                         /\ http' = <<>>
          /\ (BotStep(b) /\ bind_enable[b] /\ cur[b] = None /\ table # {})
             => \A u \in TgIds, text \in Texts :
                   (/\ WellFormed(text)
                    /\ At(text.fields, 1) \in TableKeys
                    /\ TextMessage(b, u, text, FALSE))
                   => /\ last' = Step(b, "text", <<>>, FALSE)
                      /\ cur'[b] = [user |-> u, fields |-> text.fields]
                      /\ NoEffect(b)]_vars

\* /balance has just answered 'please bind' to a user who has a binding.
C18_Witness ==
    /\ last = Step("bot1", "balance", <<Reply("PleaseBind", Nil)>>, FALSE)
    /\ \A u \in users : \E r \in table : r.tg_id = u

\* C19 (as stated): /balance for a user with n >= 1 bindings, the lookup
\* succeeding, sends n + 2 replies: 'calculating' first, one reply per
\* binding, the grand total last.
C19_Claim ==
    [][\A b \in AllBots, u \in TgIds :
          LET n == Cardinality({r \in table : r.tg_id = u})
          IN  (n >= 1 /\ last'.proc = b /\ last'.op = "balance" /\ b_balance(b, u, TRUE))
              => /\ Len(last'.texts) = n + 2
                 /\ last'.texts[1].kind = "Calculating"
                 /\ \A i \in 2..(n + 1) : last'.texts[i].kind = "Account"
                 /\ last'.texts[n + 2].kind = "Total"]_vars

\* The commands main registers a CommandHandler for.
Registered == {handlers[i].command : i \in {j \in DOMAIN handlers : handlers[j].kind = "command"}}

\* C20: an update is handled by one handler.  A registered command is
\* handled by its own handler and by nothing else: it leaves the pending
\* bind, the table and the threads alone, and only /bind touches the
\* bind-mode flag, also while bind mode is on.  Any other text, the
\* unregistered /stopPush included, goes to bind_b_api.
C20_OneHandlerPerUpdate ==
    [][\A b \in AllBots :
          (last'.proc = b /\ cur[b] = None)
          => IF update' \in Registered
             THEN /\ last'.op = update'
                  /\ Route(update') # "bind_b_api"
                  /\ cur' = cur
                  /\ table' = table
                  /\ threads' = threads
                  /\ update' # "bind" => bind_enable' = bind_enable
             ELSE /\ last'.op = "text"
                  /\ Route(update') = "bind_b_api"]_vars

\* /orders has been handled by b_orders while bind mode was on and a user
\* had a binding: the command was not taken as bind input.
C20_Witness ==
    /\ update = "orders"
    /\ last.proc = "bot1"
    /\ last.op = "orders"
    /\ bind_enable["bot1"]
    /\ table # {}

\* C21 (as stated): starting the bot process runs the table creation, so
\* the table exists once main has run.
C21_Original == [][(last'.proc \in AllBots /\ last'.op = "main") => created']_vars

\* C21 (amended): create_table is idempotent and is not run by the bot.  A
\* successful create_table leaves the table existing, with the rows it had
\* (none if it did not exist); a failing one changes nothing; either way it
\* leaves no connection open.  b_future.main creates nothing, and while
\* the table does not exist it holds no row.
C21_CreateTableIdempotent ==
    [][/\ \A ok \in BOOLEAN :
             (last'.op = "create_table" /\ create_table(ok))
             => /\ created' = (created \/ ok)
                /\ table' = table
                /\ conns' = conns
       /\ (last'.proc \in AllBots /\ last'.op = "main")
             => (created' = created /\ table' = table)
       /\ ~created' => table' = {}]_vars

\* create_table has just run on a table that holds a row.
C21_Witness ==
    /\ last = Step("sql", "create_table", <<>>, FALSE)
    /\ created
    /\ table # {}

\* C29 (as stated): after any sequence of successful and failing
\* create_table, insert_data and select_data calls no connection is open.
C29_Claim == conns = 0

\* C22 (as stated): the user_info of every thread bind_b_api has started is
\* (api_lable, tg_id, b_api_key, b_secret_key, tg_token) of the row the bind
\* has committed, so that user_info[1] is the chat id of the user who bound,
\* user_info[4] the bot token and user_info[0] the account label.
C22_Claim ==
    \A b \in AllBots :
        \A t \in BagToSet(threads[b]) :
            \E r \in table : r.tg_token = teltoken(b) /\ t.args = RowInfo(r)

\* C23 (as stated): the thread a successful bind has started, running on the
\* tuple bind_b_api built from the fields (label, key, secret), presents that
\* binding's API key and secret to the exchange and, the exchange being
\* reachable, ends its start subscribed without raising.
C23_Claim ==
    [][\A b \in AllBots, l \in Labels, k \in Keys, s \in Secrets :
          (/\ sub.state = "running"
           /\ sub.user_info = UserInfo(b, <<l, k, s>>)
           /\ StreamStart(TRUE))
          => /\ At(sub.user_info, 2) = k
             /\ At(sub.user_info, 3) = s
             /\ sub'.state = "subscribed"
             /\ ~last'.raised]_vars

NonZero(orderProfit) == orderProfit # 0

\* C24: whatever the sequence of stream messages, the messages the callback
\* of profit_order_start hands to tg_bot_send_text are, in order, those of
\* the ORDER_TRADE_UPDATE events received whose realised profit is not zero,
\* one each; a call of the callback sends one message for such an event
\* and none for any other event or message type.
C24_OnePerProfitOrder ==
    [][/\ outbox' = SelectSeq(inbox', NonZero)
       /\ last'.proc = "thread"
          => /\ Len(last'.texts) = Len(outbox') - Len(outbox)
             /\ last'.op # "ORDER_TRADE_UPDATE" => last'.texts = <<>>
             /\ ~last'.raised \/ last'.op = "start"]_vars

\* The thread has received a zero-profit order update and then one with a
\* profit, and has sent one message.
C24_Witness ==
    /\ sub.state = "subscribed"
    /\ Len(inbox) >= 2
    /\ inbox[1] = 0
    /\ inbox[2] # 0
    /\ outbox = <<inbox[2]>>

\* C25 (as stated): /orders for a user with several bindings, the lookup
\* succeeding, fetches the trade history of each binding with a request
\* signed for that binding, and does not raise.
C25_Claim ==
    [][\A b \in AllBots, u \in TgIds :
          LET mine == {r \in table : r.tg_id = u}
          IN  (/\ last'.proc = b /\ last'.op = "orders"
               /\ Cardinality(mine) >= 2
               /\ b_orders(b, u, TRUE))
              => /\ ~last'.raised
                 /\ \A r \in mine :
                       \E i \in DOMAIN http' :
                           /\ http'[i].path = "/fapi/v1/userTrades"
                           /\ SignedFor(http'[i], r)]_vars

Commands == Updates \ {""}

\* C27: bind mode ends only with a successful bind.  With the flag on, a
\* text shorter than 128 characters once its spaces are removed is ignored:
\* no reply, no database statement, nothing changed.  The flag goes off only
\* in the step of bind_b_api that commits the insert and replies 'bound';
\* it goes on only in the handler of /bind; a command leaves it on.
C27_BindModeEndsOnlyOnBind ==
    [][\A b \in AllBots :
          /\ (bind_enable[b] /\ BotStep(b))
             => \A u \in TgIds, ok \in BOOLEAN :
                   \A text \in {t \in Texts : ApiInfoLen(t) < MinApiInfoLen} :
                       TextMessage(b, u, text, ok)
                       => /\ last' = Step(b, "text", <<>>, FALSE)
                          /\ sql' = <<>>
                          /\ cur'[b] = None
                          /\ NoEffect(b)
          /\ (bind_enable[b] /\ ~bind_enable'[b])
             => /\ BotStep(b)
                /\ sql' = <<"insert">>
                /\ table' # table
                /\ last'.texts[1] = Reply("BindSuccess", Nil)
          /\ (~bind_enable[b] /\ bind_enable'[b])
             => (last'.proc = b /\ update' = "bind")
          /\ (bind_enable[b] /\ last'.proc = b /\ update' \in Commands)
             => bind_enable'[b]]_vars

\* In bind mode, with a row already bound, a text too short has just been
\* ignored: no statement ran and the bot is still in bind mode.
C27_Witness ==
    /\ last = Step("bot1", "text", <<>>, FALSE)
    /\ update = ""
    /\ sql = <<>>
    /\ bind_enable["bot1"]
    /\ cur["bot1"] = None
    /\ table # {}

\* C28 (as stated): in bind mode, a message of at least 128 characters with
\* fewer than three fields makes bind_b_api return without raising, with no
\* database statement, no row and no thread.
C28_Claim ==
    [][\A b \in AllBots :
          (bind_enable[b] /\ BotStep(b))
          => \A u \in TgIds, ok \in BOOLEAN :
                \A text \in {t \in Texts : /\ ApiInfoLen(t) >= MinApiInfoLen
                                           /\ Len(t.fields) < MinApiInfoFields} :
                    TextMessage(b, u, text, ok)
                    => /\ ~last'.raised
                       /\ sql' = <<>>
                       /\ NoEffect(b)]_vars

\* C30 (as stated): no message the bot sends carries a stored API key or
\* secret: a reply that names an account names it by its label.
C30_Claim ==
    \A i \in DOMAIN last.texts :
        last.texts[i].kind \in {"Subscribed", "Account", "Stopped"}
        => last.texts[i].arg \notin Keys \cup Secrets

====
